---- MODULE Spec2Model ----
(***************************************************************************)
(* Model of the SGG "Bulletin Officiel" HTTP facade (src/app/main.py).     *)
(*                                                                         *)
(* The program is a FastAPI application.  Its state is: the configured     *)
(* API key, the flat-file cache data/bulletins.json (owned by the          *)
(* environment), the wall clock, and, for every inbound request being      *)
(* served, the request's inputs, the position of its handler, the          *)
(* outbound calls it has issued and its response.                          *)
(*                                                                         *)
(* A handler runs without interruption between two suspension points; the  *)
(* only suspension points of the source are the awaited outbound calls     *)
(* (client.get).  One action of the model is one such uninterrupted run.   *)
(*                                                                         *)
(* Strings the code inspects (BoDate, the year parameter) are sequences    *)
(* of one-character strings, so that str.startswith is a prefix test.      *)
(***************************************************************************)
EXTENDS Integers, Sequences, FiniteSets, TLC

VARIABLES
    file,       \* content of data/bulletins.json
    utcYear,    \* datetime.datetime.utcnow().year, as a string
    pc,         \* pc[r]: position of the handler serving request slot r
    ep,         \* ep[r]: endpoint the request addresses
    cred,       \* cred[r]: what HTTPBearer(auto_error=False) extracted
    year,       \* year[r]: the `year` query parameter
    stage,      \* stage[r]: number of outbound calls of the request completed
    inflight,   \* inflight[r]: outbound targets awaiting an answer
    calls,      \* calls[r]: targets of the outbound attempts made, in order
    got,        \* got[r]: outcomes of the completed outbound calls, in order
    seen,       \* seen[r]: what the request read from the cache file and the
                \* clock (changed: the load before it returned other data)
    authed,     \* authed[r]: require_api_key returned True for this request
    resp,       \* resp[r]: the response of the request
    slot,       \* slot[k]: locals of test_proxy, the (status, content) pairs
    lastLoad,   \* history: value returned by the latest load_bulletins_from_file
    fetch       \* the BulletinFetcher of spec.md section 4.5

vars == <<file, utcYear, pc, ep, cred, year, stage, inflight, calls, got,
          seen, authed, resp, slot, lastLoad, fetch>>

reqVars == <<pc, ep, cred, year, stage, inflight, calls, got, seen, authed,
             resp, slot>>

(***************************************************************************)
(* Strings                                                                 *)
(***************************************************************************)
Str2023 == <<"2", "0", "2", "3">>
Str2024 == <<"2", "0", "2", "4">>
Str2025 == <<"2", "0", "2", "5">>
Str202  == <<"2", "0", "2">>
StrCurrent == <<"c", "u", "r", "r", "e", "n", "t">>

\* str.startswith(prefix)
StartsWith(s, prefix) ==
    /\ Len(prefix) <= Len(s)
    /\ \A i \in 1..Len(prefix) : s[i] = prefix[i]

(***************************************************************************)
(* JSON values of the cache file.  A bulletin record is a dict; only its   *)
(* BoNum label and its BoDate entry matter to the program.  BoDate is      *)
(* "missing" (no such key), "null", or "str" with the string in v.         *)
(***************************************************************************)
DateMissing == [t |-> "missing", v |-> <<>>]
DateNull    == [t |-> "null", v |-> <<>>]
DateStr(s)  == [t |-> "str", v |-> s]

Bo(n, d) == [BoNum |-> n, BoDate |-> d]

BoA == Bo("a", DateStr(Str2024 \o <<"-", "0", "3">>))
BoB == Bo("b", DateStr(Str2025 \o <<"-", "0", "1">>))
BoC == Bo("c", DateStr(Str2024 \o <<"-", "1", "1">>))
BoNoDate   == Bo("m", DateMissing)
BoNullDate == Bo("n", DateNull)

\* The value under a language key: a list of records, or JSON null.
JList(s) == [t |-> "list", v |-> s]
JNull    == [t |-> "null", v |-> <<>>]

\* A document {"bulletins": {...}}: hasBulletins says whether the key is
\* there, langs is the dict under it (a function on the keys present).
Doc(hasB, langs) == [hasBulletins |-> hasB, langs |-> langs]

NoLangs == [l \in {} |-> JNull]

FileMissing == [kind |-> "missing", doc |-> Doc(FALSE, NoLangs)]
FileInvalid == [kind |-> "invalid", doc |-> Doc(FALSE, NoLangs)]
FileJson(d) == [kind |-> "json", doc |-> d]

FileContents ==
    { FileMissing,
      FileInvalid,
      FileJson(Doc(FALSE, NoLangs)),
      FileJson(Doc(TRUE, [l \in {"FR"} |-> JList(<<BoNoDate, BoA>>)])),
      FileJson(Doc(TRUE, [l \in {"FR", "AR"} |->
                            IF l = "FR" THEN JList(<<BoA, BoB, BoC>>)
                                        ELSE JList(<<BoB>>)])),
      FileJson(Doc(TRUE, [l \in {"FR", "AR"} |->
                            IF l = "FR" THEN JList(<<>>)
                                        ELSE JList(<<BoC, BoA>>)])),
      FileJson(Doc(TRUE, [l \in {"FR", "AR"} |->
                            IF l = "FR" THEN JList(<<BoNullDate, BoA>>)
                                        ELSE JNull])) }

(***************************************************************************)
(* Requests                                                                *)
(***************************************************************************)
RequestIds == {1, 2}

InternalProxies ==
    {"/api/BO/FR/internal", "/api/BO/ALL/FR/internal", "/api/BO/AR/internal",
     "/api/BO/ALL/AR/internal", "/api/BO/Text/FR/internal",
     "/api/BO/Text/AR/internal"}

TextEndpoints == {"/api/BO/Text/FR/internal", "/api/BO/Text/AR/internal"}

LatestEndpoints == {"/api/BO/FR/internal", "/api/BO/AR/internal"}

\* The routes declared with Depends(require_api_key).
InternalEndpoints == InternalProxies \cup {"/api/database/refresh/internal"}

LocalEndpoints == {"/api/BO/local/FR", "/api/BO/local/AR"}

PublicEndpoints ==
    {"/", "/index.html", "/api/database", "/api/test-proxy", "/health"}
        \cup LocalEndpoints

Endpoints == InternalEndpoints \cup PublicEndpoints

\* security = HTTPBearer(auto_error=False): None when the Authorization
\* header is missing, is not of the Bearer scheme or carries no token;
\* otherwise the token.
NoCredentials == [present |-> FALSE, credentials |-> ""]
Bearer(tok)   == [present |-> TRUE, credentials |-> tok]

API_KEY == "TESTAPIKEY"

Tokens == {"TESTAPIKEY", "testapikey"}

Credentials == {NoCredentials} \cup {Bearer(tok) : tok \in Tokens}

\* The `year` query parameter: None, or a string.
NoYear     == [given |-> FALSE, v |-> <<>>]
YearOf(s)  == [given |-> TRUE, v |-> s]

Years ==
    {NoYear, YearOf(StrCurrent), YearOf(Str2024), YearOf(Str2023),
     YearOf(Str202)}

ClockYears == {Str2024, Str2025}

(***************************************************************************)
(* Responses.  A body is a record [t, v]; v is read only under its tag t.  *)
(***************************************************************************)
Response(status, body) == [status |-> status, body |-> body]

Detail(parts) == [t |-> "detail", v |-> parts]

NoResponse == Response(0, Detail(<<>>))

\* raise HTTPException(status_code=..., detail=...), as FastAPI answers it.
HTTPExceptionResponse(status, parts) == Response(status, Detail(parts))

\* An exception no handler catches: Starlette answers 500.
UnhandledResponse(excType) ==
    Response(500, [t |-> "unhandled", v |-> <<excType>>])

(***************************************************************************)
(* Authentication                                                          *)
(***************************************************************************)
\* Mutant: the token is compared without regard to case.
Lower(tok) == IF tok = "TESTAPIKEY" THEN "testapikey" ELSE tok

verify_api_key_nocase(credentials) ==
    IF ~credentials.present
    THEN FALSE
    ELSE Lower(credentials.credentials) = Lower(API_KEY)

verify_api_key(credentials) ==
    IF ~credentials.present
    THEN FALSE
    ELSE credentials.credentials = API_KEY

\* The outcome of the dependency: raised (with the 401 response) or True.
require_api_key(credentials) ==
    IF ~verify_api_key(credentials)
    THEN [raised |-> TRUE,
          response |-> HTTPExceptionResponse(401,
              <<"Invalid or missing API key. This endpoint requires internal access.">>)]
    ELSE [raised |-> FALSE, response |-> NoResponse]

(***************************************************************************)
(* The local cache                                                         *)
(***************************************************************************)
EmptyDb ==
    Doc(TRUE, [l \in {"FR", "AR"} |-> JList(<<>>)])

\* Mutant: a file that is not valid JSON yields an empty document.
load_bulletins_from_file_bare(f) ==
    IF f.kind = "missing" THEN EmptyDb ELSE f.doc

load_bulletins_from_file(f) ==
    IF f.kind = "missing" THEN EmptyDb         \* FileNotFoundError
    ELSE IF f.kind = "invalid" THEN EmptyDb    \* json.JSONDecodeError
    ELSE f.doc

\* data.get("bulletins", {}).get(lang, [])
LangList(data, lang) ==
    IF ~data.hasBulletins THEN JList(<<>>)
    ELSE IF lang \in DOMAIN data.langs THEN data.langs[lang]
    ELSE JList(<<>>)

\* Python truthiness of the value under a language key.
Truthy(j) == j.t = "list" /\ Len(j.v) > 0

\* b.get("BoDate", "").startswith(y): raises AttributeError on None.
DateRaises(b) == b.BoDate.t = "null"

DateStartsWith(b, y) ==
    StartsWith(IF b.BoDate.t = "missing" THEN <<>> ELSE b.BoDate.v, y)

RECURSIVE Select(_, _)
Select(s, y) ==
    IF s = <<>> THEN <<>>
    ELSE IF DateStartsWith(Head(s), y)
         THEN <<Head(s)>> \o Select(Tail(s), y)
         ELSE Select(Tail(s), y)

RECURSIVE Reverse(_)
Reverse(s) == IF s = <<>> THEN <<>> ELSE Append(Reverse(Tail(s)), Head(s))

\* Mutant: the filtered records come out latest first.
filter_by_year_reversed(bulletins, y, now) ==
    LET prefix == IF y = StrCurrent THEN now ELSE y
    IN  IF \E i \in 1..Len(bulletins) : DateRaises(bulletins[i])
        THEN [raised |-> TRUE, v |-> <<>>]
        ELSE [raised |-> FALSE, v |-> Reverse(Select(bulletins, prefix))]

\* filter_by_year(bulletins, year), with the clock it reads.  The list
\* comprehension evaluates every record, so one raising record raises.
filter_by_year(bulletins, y, now) ==
    LET prefix == IF y = StrCurrent THEN now ELSE y
    IN  IF \E i \in 1..Len(bulletins) : DateRaises(bulletins[i])
        THEN [raised |-> TRUE, v |-> <<>>]
        ELSE [raised |-> FALSE, v |-> Select(bulletins, prefix)]

LangName(lang) == IF lang = "FR" THEN "French" ELSE "Arabic"

\* api_bo_local_fr / api_bo_local_ar, on the data just loaded.
api_bo_local(lang, data, yr, now) ==
    LET bulletins == LangList(data, lang)
    IN  IF ~Truthy(bulletins)
        THEN HTTPExceptionResponse(404,
                <<"No ", LangName(lang), " Bulletin Officiel found in local database">>)
        ELSE IF yr.given
        THEN LET filtered == filter_by_year(bulletins.v, yr.v, now)
             IN  IF filtered.raised THEN UnhandledResponse("AttributeError")
                 ELSE IF filtered.v = <<>>
                 THEN HTTPExceptionResponse(404,
                        <<"No ", LangName(lang), " Bulletin Officiel found for year ">>
                            \o yr.v \o <<" in local database">>)
                 ELSE Response(200, JList(filtered.v))
        ELSE Response(200, bulletins)

get_database(data) == Response(200, [t |-> "db", v |-> data])

(***************************************************************************)
(* Outbound calls.  An outcome of client.get is a response (status code    *)
(* and body) or an exception (network error, timeout).                     *)
(***************************************************************************)
JsonBody(items) == [t |-> "json", v |-> items]
TextBody        == [t |-> "text", v |-> <<"<html>">>]

Answered(status, body) ==
    [kind |-> "response", status |-> status, body |-> body, exc |-> ""]
Failed(excType) ==
    [kind |-> "exception", status |-> 0, body |-> TextBody, exc |-> excType]

\* What the scraper API may answer to a proxy endpoint.
ProxyOutcomes ==
    { Answered(200, JsonBody(<<>>)),
      Answered(200, JsonBody(<<"bo2", "bo1">>)),
      Answered(200, TextBody),
      Answered(404, TextBody),
      Answered(503, TextBody),
      Failed("ConnectError"),
      Failed("ReadTimeout") }

\* What the three targets of /api/test-proxy may answer.
TestOutcomes ==
    { Answered(200, TextBody), Answered(503, TextBody), Failed("ConnectError") }

Outcomes(e) == IF e = "/api/test-proxy" THEN TestOutcomes ELSE ProxyOutcomes

ScraperApi == "https://aicrafters-scraper-api.vercel.app"

\* The URLs a handler requests, in the order of its code.
Targets(e) ==
    CASE e = "/api/BO/FR/internal"      -> <<ScraperApi \o "/api/BO/FR">>
      [] e = "/api/BO/ALL/FR/internal"  -> <<ScraperApi \o "/api/BO/ALL/FR">>
      [] e = "/api/BO/AR/internal"      -> <<ScraperApi \o "/api/BO/AR">>
      [] e = "/api/BO/ALL/AR/internal"  -> <<ScraperApi \o "/api/BO/ALL/AR">>
      [] e = "/api/BO/Text/FR/internal" -> <<ScraperApi \o "/api/BO/Text/FR">>
      [] e = "/api/BO/Text/AR/internal" -> <<ScraperApi \o "/api/BO/Text/AR">>
      [] e = "/api/test-proxy" ->
            << "https://www.sgg.gov.ma/BulletinOfficiel.aspx",
               "https://cors-anywhere.herokuapp.com/https://www.sgg.gov.ma/BulletinOfficiel.aspx",
               "https://api.allorigins.win/get?url=https://www.sgg.gov.ma/BulletinOfficiel.aspx" >>
      [] OTHER -> <<>>

StatusStr(n) ==
    CASE n = 200 -> "200" [] n = 404 -> "404" [] n = 503 -> "503" [] OTHER -> "?"

\* Exceptions raised inside a handler: [type, status, msg]; str(e) is msg.
Exception(type, status, msg) == [type |-> type, status |-> status, msg |-> msg]

\* The try-block of a proxy handler, given the outcome of its client.get:
\* the value it returns or the exception it raises.
ProxyTry(e, outcome) ==
    IF outcome.kind = "exception"
    THEN [raised |-> TRUE, value |-> outcome.body,
          exc |-> Exception(outcome.exc, 0, <<outcome.exc>>)]
    ELSE IF outcome.status = 200
    THEN IF outcome.body.t = "json"
         THEN [raised |-> FALSE, value |-> outcome.body,
               exc |-> Exception("", 0, <<>>)]
         ELSE \* response.json() raises on a body that is not JSON
              [raised |-> TRUE, value |-> outcome.body,
               exc |-> Exception("JSONDecodeError", 0, <<"JSONDecodeError">>)]
    ELSE IF e = "/api/BO/Text/AR/internal"
    THEN \* line 1060 reads `e` before any except clause bound it
         [raised |-> TRUE, value |-> outcome.body,
          exc |-> Exception("UnboundLocalError", 0, <<"UnboundLocalError">>)]
    ELSE [raised |-> TRUE, value |-> outcome.body,
          exc |-> Exception("HTTPException", outcome.status,
                     <<StatusStr(outcome.status),
                       ": Failed to fetch data from external API">>)]

\* Mutant: an HTTPException raised in the try-block passes through.
ProxyExcept_reraise(exc) ==
    IF exc.type = "HTTPException"
    THEN HTTPExceptionResponse(exc.status,
            <<"Failed to fetch data from external API">>)
    ELSE HTTPExceptionResponse(500, <<"Internal server error: ">> \o exc.msg)

\* `except Exception as e: raise HTTPException(status_code=500, ...)`.
\* HTTPException is an Exception, so the clause catches it too.
ProxyExcept(exc) ==
    HTTPExceptionResponse(500, <<"Internal server error: ">> \o exc.msg)

\* Mutant: a "latest" handler answers 404 to an empty array and picks the
\* element at index zero of a non-empty one.
api_bo_internal_first(e, outcome) ==
    LET try == ProxyTry(e, outcome)
    IN  IF try.raised THEN ProxyExcept(try.exc)
        ELSE IF e \in LatestEndpoints /\ try.value.v = <<>>
        THEN HTTPExceptionResponse(404, <<"Not found">>)
        ELSE IF e \in LatestEndpoints
        THEN Response(200, JsonBody(<<Head(try.value.v)>>))
        ELSE Response(200, try.value)

\* A proxy handler from the answer of its outbound call to its response.
api_bo_internal(e, outcome) ==
    LET try == ProxyTry(e, outcome)
    IN  IF try.raised THEN ProxyExcept(try.exc)
        ELSE Response(200, try.value)

refresh_database_internal ==
    Response(200, [t |-> "message",
                   v |-> <<"Database refresh initiated", "success">>])

\* Mutant: the refresh endpoint rewrites the cache file.
FileAfter_refresh(e, f) ==
    IF e = "/api/database/refresh/internal" THEN FileJson(EmptyDb) ELSE f

\* What a handler run does to the cache file content.
FileAfter(e, f) == f

health_check(now) ==
    Response(200, [t |-> "health", v |-> <<"healthy">> \o now])

root == Response(200, [t |-> "html", v |-> <<"<!DOCTYPE html>">>])

\* One test of test_proxy: the (status, content_length) pair it records.
TestResult(outcome) ==
    IF outcome.kind = "exception"
    THEN <<"Error", outcome.exc>>
    ELSE IF outcome.status = 200
    THEN <<StatusStr(outcome.status), "len(response.text)">>
    ELSE <<StatusStr(outcome.status), "Failed">>

\* The dict test_proxy returns, from its locals and the clock.
test_proxy(results, now) ==
    Response(200, [t |-> "test-proxy", v |-> <<now, results>>])

(***************************************************************************)
(* The identifier-and-date subsystem of spec.md sections 4 and 5.  Its     *)
(* code is not in src/app/main.py, whose proxy handlers only call the      *)
(* service that runs it; it is modelled from spec.md.                      *)
(***************************************************************************)
MaxScriptLen == 3
MaxRecords == 2

\* An optional identifier.
Absent == [present |-> FALSE, n |-> 0]
Id(n)  == [present |-> TRUE, n |-> n]

\* Script text, as the sequence of its identifier assignments in document
\* order: `ModuleId = n` or `TabId = n`.
Assign(name, n) == [name |-> name, n |-> n]

Assignments ==
    {Assign("ModuleId", 5), Assign("ModuleId", 9),
     Assign("TabId", 42), Assign("TabId", 7)}

RECURSIVE SeqsUpTo(_, _)
SeqsUpTo(S, n) ==
    IF n = 0 THEN {<<>>}
    ELSE LET shorter == SeqsUpTo(S, n - 1)
         IN  shorter \cup {Append(q, x) : q \in shorter, x \in S}

ScriptTexts == SeqsUpTo(Assignments, MaxScriptLen)

Matches(text, name) == {i \in 1..Len(text) : text[i].name = name}

MinOf(S) == CHOOSE x \in S : \A y \in S : x <= y
MaxOf(S) == CHOOSE x \in S : \A y \in S : x >= y

\* Mutant: the minimum and the maximum are exchanged between the languages.
extract_swapped(text, language) ==
    LET modules == {text[i].n : i \in Matches(text, "ModuleId")}
        tabs    == Matches(text, "TabId")
    IN  [contextId |-> IF modules = {} THEN Absent
                       ELSE IF language = "primary"
                            THEN Id(MaxOf(modules))
                            ELSE Id(MinOf(modules)),
         tabId     |-> IF tabs = {} THEN Absent
                       ELSE Id(text[MinOf(tabs)].n)]

\* IdentifierExtractor.extract (4.3)
extract(text, language) ==
    LET modules == {text[i].n : i \in Matches(text, "ModuleId")}
        tabs    == Matches(text, "TabId")
    IN  [contextId |-> IF modules = {} THEN Absent
                       ELSE IF language = "primary"
                            THEN Id(MinOf(modules))
                            ELSE Id(MaxOf(modules)),
         tabId     |-> IF tabs = {} THEN Absent
                       ELSE Id(text[MinOf(tabs)].n)]

\* Outcomes of the call to the page-scraping service (6).
Scraped(text) == [kind |-> "scripts", text |-> text]
ScrapeFailure(kind) == [kind |-> kind, text |-> <<>>]

ScrapeOutcomes ==
    {Scraped(text) : text \in ScriptTexts}
        \cup {ScrapeFailure(k) : k \in {"network error", "timeout", "parse failure"}}

\* The live identifiers of a scrape outcome, complete or not.
LiveIdentifiers(scrape, language) ==
    IF scrape.kind = "scripts" THEN extract(scrape.text, language)
    ELSE [contextId |-> Absent, tabId |-> Absent]

Complete(ids) == ids.contextId.present /\ ids.tabId.present

\* Mutant: the live identifiers are used as they are, Absent included.
ResolveIdentifiers_live(scrape, language, fallback) ==
    LiveIdentifiers(scrape, language)

\* BulletinFetcher steps 1-2 (4.5): the live identifiers, or on any failure
\* the caller-supplied static fallback identifiers.
ResolveIdentifiers(scrape, language, fallback) ==
    LET live == LiveIdentifiers(scrape, language)
    IN  IF Complete(live) THEN live ELSE fallback

\* The static fallback identifiers of each language.
Fallback(language) ==
    IF language = "primary"
    THEN [contextId |-> Id(1), tabId |-> Id(2)]
    ELSE [contextId |-> Id(3), tabId |-> Id(2)]

\* Raw upstream records, by label; BulletinItemParser.parse (4.4) never
\* fails.
RawRecords == {"r1", "r2"}

parse(raw) == [item |-> raw]

\* Outcomes of the upstream listing call (6).
Listed(records) == [kind |-> "array", records |-> records]
ListingFailure(kind) == [kind |-> kind, records |-> <<>>]

ListingOutcomes ==
    {Listed(q) : q \in SeqsUpTo(RawRecords, MaxRecords)}
        \cup {ListingFailure(k) :
                k \in {"not a collection", "non-success status",
                       "network error", "timeout"}}

NotFound == [kind |-> "Absent", items |-> <<>>]

\* BulletinFetcher steps 4-5 (4.5): fetchLatest / fetchAll from the
\* listing outcome.
FetchResult(mode, listing) ==
    IF listing.kind # "array" THEN NotFound
    ELSE IF mode = "latest"
    THEN IF listing.records = <<>> THEN NotFound
         ELSE [kind |-> "item", items |-> <<parse(listing.records[1])>>]
    ELSE [kind |-> "items",
          items |-> [i \in 1..Len(listing.records) |-> parse(listing.records[i])]]

FetchIdle ==
    [pc |-> "idle", language |-> "primary", mode |-> "latest",
     scrape |-> ScrapeFailure("none"),
     live |-> [contextId |-> Absent, tabId |-> Absent],
     ids |-> Fallback("primary"),
     scrapeCalls |-> 0, listingCalls |-> 0,
     listing |-> ListingFailure("none"), result |-> NotFound]

(***************************************************************************)
(* Handlers as steps                                                       *)
(***************************************************************************)
NotRead == [read |-> FALSE, data |-> EmptyDb, now |-> <<>>, changed |-> FALSE]
NotLoaded == [loaded |-> FALSE, data |-> EmptyDb]

\* Mutant: the locals are module-level variables, shared by all requests.
LocalsOf_global(r) == 1

\* Where the locals of the handler serving request r live: every call of
\* a handler has its own frame.
LocalsOf(r) == r

\* Mutant: the parsed file is kept in a module-level variable.
Load_memo(f, last) ==
    IF last.loaded THEN last.data ELSE load_bulletins_from_file(f)

\* The data a handler works on: each call of load_bulletins_from_file
\* opens and parses the file again.
Load(f, last) == load_bulletins_from_file(f)

\* Mutant: a call that failed is attempted once more.
NextCalls_retry(e, done, outcome) ==
    IF done >= 1 /\ (outcome.kind = "exception" \/ outcome.status # 200)
    THEN <<Targets(e)[done]>>
    ELSE IF done < Len(Targets(e)) THEN <<Targets(e)[done + 1]>> ELSE <<>>

\* Mutant: the handler starts all its calls at once and gathers them.
NextCalls_gather(e, done, outcome) ==
    IF done = 0 THEN Targets(e) ELSE <<>>

\* The calls a handler issues once `done` of its calls have completed, the
\* latest with `outcome`: the next await of its code, if any.
NextCalls(e, done, outcome) ==
    IF done < Len(Targets(e)) THEN <<Targets(e)[done + 1]>> ELSE <<>>

Range(q) == {q[i] : i \in 1..Len(q)}

\* The handlers that return without awaiting anything.
Immediate(e, data, yr, now) ==
    CASE e \in {"/", "/index.html"}          -> root
      [] e = "/api/database"                 -> get_database(data)
      [] e = "/api/BO/local/FR"              -> api_bo_local("FR", data, yr, now)
      [] e = "/api/BO/local/AR"              -> api_bo_local("AR", data, yr, now)
      [] e = "/api/database/refresh/internal" -> refresh_database_internal
      [] e = "/health"                       -> health_check(now)
      [] OTHER                               -> NoResponse

\* Mutant: the health probe loads the cache file too.
ReadsFile_health(e) ==
    e \in LocalEndpoints \cup {"/api/database", "/health"}

ReadsFile(e) == e \in LocalEndpoints \cup {"/api/database"}
ReadsClock(e, yr) ==
    \/ e = "/health"
    \/ e \in LocalEndpoints /\ yr.given /\ yr.v = StrCurrent

\* The response of a handler whose outbound calls have all completed.
Final(e, outcomes, locals, now) ==
    IF e = "/api/test-proxy" THEN test_proxy(locals, now)
    ELSE api_bo_internal(e, outcomes[Len(outcomes)])

Init ==
    /\ file \in FileContents
    /\ utcYear \in ClockYears
    /\ pc = [r \in RequestIds |-> "idle"]
    /\ ep = [r \in RequestIds |-> "/"]
    /\ cred = [r \in RequestIds |-> NoCredentials]
    /\ year = [r \in RequestIds |-> NoYear]
    /\ stage = [r \in RequestIds |-> 0]
    /\ inflight = [r \in RequestIds |-> {}]
    /\ calls = [r \in RequestIds |-> <<>>]
    /\ got = [r \in RequestIds |-> <<>>]
    /\ seen = [r \in RequestIds |-> NotRead]
    /\ authed = [r \in RequestIds |-> FALSE]
    /\ resp = [r \in RequestIds |-> NoResponse]
    /\ slot = [r \in RequestIds |-> <<>>]
    /\ lastLoad = NotLoaded
    /\ fetch = FetchIdle

\* A request arrives on a free slot.
Arrive(r, e, c, y) ==
    /\ pc[r] = "idle"
    /\ pc' = [pc EXCEPT ![r] = "start"]
    /\ ep' = [ep EXCEPT ![r] = e]
    /\ cred' = [cred EXCEPT ![r] = c]
    /\ year' = [year EXCEPT ![r] = y]
    /\ UNCHANGED <<file, utcYear, stage, inflight, calls, got, seen, authed,
                   resp, slot, lastLoad, fetch>>

\* Mutant: a public route is declared with the dependency too.
RequiresKey_database(e) == e \in InternalEndpoints \cup {"/api/database"}

\* Mutant: the dependency is left off one internal route.
RequiresKey_forgotten(e) ==
    e \in InternalEndpoints \ {"/api/BO/Text/AR/internal"}

\* The routes whose handler takes api_key: bool = Depends(require_api_key).
RequiresKey(e) == e \in InternalEndpoints

\* Depends(require_api_key) is resolved before the handler is called.
Authenticate(r) ==
    /\ pc[r] = "start"
    /\ RequiresKey(ep[r])
    /\ LET dep == require_api_key(cred[r])
       IN  IF dep.raised
           THEN /\ pc' = [pc EXCEPT ![r] = "done"]
                /\ resp' = [resp EXCEPT ![r] = dep.response]
                /\ UNCHANGED authed
           ELSE /\ pc' = [pc EXCEPT ![r] = "authed"]
                /\ authed' = [authed EXCEPT ![r] = TRUE]
                /\ UNCHANGED resp
    /\ UNCHANGED <<file, utcYear, ep, cred, year, stage, inflight, calls, got,
                   seen, slot, lastLoad, fetch>>

\* The handler is called and runs to its first await, or to its return.
Handle(r) ==
    /\ \/ pc[r] = "start" /\ ~RequiresKey(ep[r])
       \/ pc[r] = "authed"
    /\ LET e     == ep[r]
           data  == IF ReadsFile(e) THEN Load(file, lastLoad) ELSE EmptyDb
           first == NextCalls(e, 0, Failed(""))
       IN  /\ seen' = [seen EXCEPT ![r] =
                        [read |-> ReadsFile(e),
                         data |-> data,
                         now  |-> IF ReadsClock(e, year[r]) THEN utcYear ELSE <<>>,
                         changed |-> /\ ReadsFile(e)
                                     /\ lastLoad.loaded
                                     /\ lastLoad.data # data]]
           /\ lastLoad' = IF ReadsFile(e)
                          THEN [loaded |-> TRUE, data |-> data]
                          ELSE lastLoad
           /\ file' = FileAfter(e, file)
           /\ IF Targets(e) = <<>>
              THEN /\ pc' = [pc EXCEPT ![r] = "done"]
                   /\ resp' = [resp EXCEPT ![r] =
                                 Immediate(e, data, year[r], utcYear)]
                   /\ UNCHANGED <<inflight, calls, slot>>
              ELSE /\ pc' = [pc EXCEPT ![r] = "await"]
                   /\ inflight' = [inflight EXCEPT ![r] = Range(first)]
                   /\ calls' = [calls EXCEPT ![r] = first]
                   /\ slot' = [slot EXCEPT ![LocalsOf(r)] = <<>>]
                   /\ UNCHANGED resp
    /\ UNCHANGED <<utcYear, ep, cred, year, stage, got, authed, fetch>>

\* Mutant: an exception of client.get ends the handler's task without any
\* response being produced; the request stays open.
Return_stuck(r, target, outcome) ==
    /\ pc[r] = "await"
    /\ target \in inflight[r]
    /\ LET e      == ep[r]
           done   == stage[r] + 1
           lost   == outcome.kind = "exception"
           next   == IF lost THEN <<>> ELSE NextCalls(e, done, outcome)
           flying == IF lost THEN {}
                     ELSE (inflight[r] \ {target}) \cup Range(next)
           locals == IF e = "/api/test-proxy"
                     THEN Append(slot[LocalsOf(r)], TestResult(outcome))
                     ELSE slot[LocalsOf(r)]
           slot1  == [slot EXCEPT ![LocalsOf(r)] = locals]
           outs   == Append(got[r], outcome)
       IN  /\ stage' = [stage EXCEPT ![r] = done]
           /\ got' = [got EXCEPT ![r] = outs]
           /\ slot' = slot1
           /\ inflight' = [inflight EXCEPT ![r] = flying]
           /\ calls' = [calls EXCEPT ![r] = calls[r] \o next]
           /\ IF flying = {} /\ ~lost
              THEN /\ pc' = [pc EXCEPT ![r] = "done"]
                   /\ resp' = [resp EXCEPT ![r] =
                                 Final(e, outs, slot1[LocalsOf(r)], utcYear)]
                   /\ seen' = [seen EXCEPT ![r].now =
                                 IF e = "/api/test-proxy" THEN utcYear ELSE @]
              ELSE UNCHANGED <<pc, resp, seen>>
    /\ UNCHANGED <<file, utcYear, ep, cred, year, authed, lastLoad, fetch>>

\* An outbound call of request r completes; its handler resumes and runs
\* to its next await, or to its return.
Return(r, target, outcome) ==
    /\ pc[r] = "await"
    /\ target \in inflight[r]
    /\ LET e      == ep[r]
           done   == stage[r] + 1
           next   == NextCalls(e, done, outcome)
           flying == (inflight[r] \ {target}) \cup Range(next)
           locals == IF e = "/api/test-proxy"
                     THEN Append(slot[LocalsOf(r)], TestResult(outcome))
                     ELSE slot[LocalsOf(r)]
           slot1  == [slot EXCEPT ![LocalsOf(r)] = locals]
           outs   == Append(got[r], outcome)
       IN  /\ stage' = [stage EXCEPT ![r] = done]
           /\ got' = [got EXCEPT ![r] = outs]
           /\ slot' = slot1
           /\ inflight' = [inflight EXCEPT ![r] = flying]
           /\ calls' = [calls EXCEPT ![r] = calls[r] \o next]
           /\ IF flying = {}
              THEN /\ pc' = [pc EXCEPT ![r] = "done"]
                   /\ resp' = [resp EXCEPT ![r] =
                                 Final(e, outs, slot1[LocalsOf(r)], utcYear)]
                   /\ seen' = [seen EXCEPT ![r].now =
                                 IF e = "/api/test-proxy" THEN utcYear ELSE @]
              ELSE UNCHANGED <<pc, resp, seen>>
    /\ UNCHANGED <<file, utcYear, ep, cred, year, authed, lastLoad, fetch>>

\* The response is sent; nothing of the request is kept.
Deliver(r) ==
    /\ pc[r] = "done"
    /\ pc' = [pc EXCEPT ![r] = "idle"]
    /\ ep' = [ep EXCEPT ![r] = "/"]
    /\ cred' = [cred EXCEPT ![r] = NoCredentials]
    /\ year' = [year EXCEPT ![r] = NoYear]
    /\ stage' = [stage EXCEPT ![r] = 0]
    /\ inflight' = [inflight EXCEPT ![r] = {}]
    /\ calls' = [calls EXCEPT ![r] = <<>>]
    /\ got' = [got EXCEPT ![r] = <<>>]
    /\ seen' = [seen EXCEPT ![r] = NotRead]
    /\ authed' = [authed EXCEPT ![r] = FALSE]
    /\ resp' = [resp EXCEPT ![r] = NoResponse]
    /\ slot' = [slot EXCEPT ![LocalsOf(r)] = <<>>]
    /\ UNCHANGED <<file, utcYear, lastLoad, fetch>>

\* The environment replaces the cache file (it owns the file).
WriteFile(f) ==
    /\ f # file
    /\ file' = f
    /\ UNCHANGED <<utcYear, reqVars, lastLoad, fetch>>

\* New Year's Eve passes.
Tick ==
    /\ utcYear = Str2024
    /\ utcYear' = Str2025
    /\ UNCHANGED <<file, reqVars, lastLoad, fetch>>

YearsOf(e) == IF e \in LocalEndpoints THEN Years ELSE {NoYear}

\* Spec follows the requests one at a time, each from its arrival to the
\* delivery of its response, while the environment writes the file and the
\* clock advances; SpecConc below interleaves them.
ArriveAlone ==
    \E r \in RequestIds, e \in Endpoints, c \in Credentials :
        \E y \in YearsOf(e) :
            /\ \A q \in RequestIds : pc[q] = "idle"
            /\ Arrive(r, e, c, y)

Authenticates == \E r \in RequestIds : Authenticate(r)
Handles == \E r \in RequestIds : Handle(r)
Returns ==
    \E r \in RequestIds : \E t \in inflight[r], o \in Outcomes(ep[r]) :
        Return(r, t, o)
Delivers == \E r \in RequestIds : Deliver(r)
WritesFile == \E f \in FileContents : WriteFile(f)

Next ==
    \/ ArriveAlone
    \/ Authenticates
    \/ Handles
    \/ Returns
    \/ Delivers
    \/ WritesFile
    \/ Tick

Spec == Init /\ [][Next]_vars

\* The event loop runs every task that is ready, and every outbound call
\* ends: it is answered, it raises, or the client's timeout expires.
Fairness ==
    \A r \in RequestIds :
        /\ WF_vars(Authenticate(r))
        /\ WF_vars(Handle(r))
        /\ WF_vars(\E t \in inflight[r], o \in Outcomes(ep[r]) : Return(r, t, o))

SpecLive == Init /\ [][Next]_vars /\ Fairness

(***************************************************************************)
(* Concurrent service: a request may arrive while another is suspended in  *)
(* an outbound call.                                                       *)
(***************************************************************************)
\* One endpoint of each shape of handler: three awaits, one await (the two
\* variants of the try-block), file read with and without filtering, no
\* await behind the dependency.
ConcEndpoints ==
    {"/api/test-proxy", "/api/BO/FR/internal", "/api/BO/Text/AR/internal",
     "/api/BO/local/FR", "/api/database", "/api/database/refresh/internal"}

ConcCredentials == {NoCredentials, Bearer(API_KEY)}

ArriveAny ==
    \E r \in RequestIds, e \in ConcEndpoints, c \in ConcCredentials :
        \E y \in YearsOf(e) : Arrive(r, e, c, y)

NextConc ==
    \/ ArriveAny
    \/ Authenticates
    \/ Handles
    \/ Returns
    \/ Delivers

SpecConc == Init /\ [][NextConc]_vars

(***************************************************************************)
(* Properties                                                              *)
(***************************************************************************)
Unauthorized ==
    HTTPExceptionResponse(401,
        <<"Invalid or missing API key. This endpoint requires internal access.">>)

\* C1: on each of the seven internal endpoints a request without bearer
\* credentials, or whose token differs from API_KEY, is answered 401 with
\* the authentication error, having issued no outbound call and received no
\* upstream answer; a request gets past the dependency (runs the handler,
\* issues a call, gets another answer than 401) only with the token API_KEY.
C1_AuthRequired ==
    \A r \in RequestIds :
        ep[r] \in InternalEndpoints =>
            /\ (pc[r] = "done" /\ cred[r] # Bearer(API_KEY)) =>
                    /\ resp[r] = Unauthorized
                    /\ calls[r] = <<>>
                    /\ got[r] = <<>>
            /\ (\/ pc[r] \in {"authed", "await"}
                \/ authed[r]
                \/ calls[r] # <<>>
                \/ pc[r] = "done" /\ resp[r].status # 401) =>
                    cred[r] = Bearer(API_KEY)

\* A request with a token that differs from API_KEY only by case was
\* answered 401.
C1_Witness ==
    \E r \in RequestIds :
        /\ pc[r] = "done"
        /\ ep[r] = "/api/database/refresh/internal"
        /\ cred[r] = Bearer("testapikey")
        /\ resp[r].status = 401

LangOf(e) == IF e = "/api/BO/local/FR" THEN "FR" ELSE "AR"

\* The records of a list whose BoDate lies in the year asked for.
InYear(bulletins, yr, now) ==
    Select(bulletins, IF yr.v = StrCurrent THEN now ELSE yr.v)

\* C2: a local endpoint answers 404 exactly when the list of its language
\* is missing or empty in the cache, or a year is given and no record of
\* the list lies in that year; in every other case it answers 200; a 200
\* answer never carries an empty list.
C2_Local404Exactly ==
    \A r \in RequestIds :
        (pc[r] = "done" /\ ep[r] \in LocalEndpoints) =>
            LET bulletins == LangList(seen[r].data, LangOf(ep[r]))
                absent ==
                    \/ ~Truthy(bulletins)
                    \/ /\ year[r].given
                       /\ InYear(bulletins.v, year[r], seen[r].now) = <<>>
            IN  /\ resp[r].status = IF absent THEN 404 ELSE 200
                /\ resp[r].status = 200 => Truthy(resp[r].body)

\* The outbound call of an authenticated proxy request failed: it raised,
\* or it was answered with another status than 200.
UpstreamFailed(r) ==
    /\ pc[r] = "done"
    /\ ep[r] \in InternalProxies
    /\ authed[r]
    /\ Len(got[r]) = 1
    /\ \/ got[r][1].kind = "exception"
       \/ got[r][1].status # 200

LatestAnswered(r) ==
    /\ pc[r] = "done"
    /\ ep[r] \in LatestEndpoints
    /\ authed[r]
    /\ Len(got[r]) = 1
    /\ got[r][1].kind = "response"
    /\ got[r][1].status = 200

\* C5, as claimed: on the "latest" endpoints an empty upstream array gives
\* 404, and a non-empty one gives the element at index zero.
C5_LatestIsFirstOr404 ==
    \A r \in RequestIds :
        (LatestAnswered(r) /\ got[r][1].body.t = "json") =>
            IF got[r][1].body.v = <<>>
            THEN resp[r].status = 404
            ELSE /\ resp[r].status = 200
                 /\ resp[r].body = JsonBody(<<Head(got[r][1].body.v)>>)

\* C5, amended: on the "latest" endpoints a 200 upstream answer with a JSON
\* body is passed through: the response is 200 with that body unchanged, so
\* an empty array gives 200 with an empty array (not 404) and a non-empty
\* array is returned whole, in upstream order; a 200 answer whose body is
\* not JSON gives 500.  No upstream answer 200 gives 404.
C5_LatestPassThrough ==
    \A r \in RequestIds :
        LatestAnswered(r) =>
            IF got[r][1].body.t = "json"
            THEN /\ resp[r].status = 200
                 /\ resp[r].body = got[r][1].body
            ELSE resp[r].status = 500

\* An empty upstream array was answered 200.
C5_Witness ==
    \E r \in RequestIds :
        /\ LatestAnswered(r)
        /\ got[r][1].body = JsonBody(<<>>)
        /\ resp[r] = Response(200, JsonBody(<<>>))

Attempts(r, target) ==
    Cardinality({i \in 1..Len(calls[r]) : calls[r][i] = target})

AllTargets == UNION {Range(Targets(e)) : e \in Endpoints}

\* C6: during the handling of a request at most one outbound attempt is
\* made to any target, whatever the outcome of the attempt.
C6_NoRetry ==
    \A r \in RequestIds : \A t \in AllTargets : Attempts(r, t) <= 1

\* A request is done whose only call failed, and was attempted once.
C6_Witness ==
    \E r \in RequestIds :
        /\ UpstreamFailed(r)
        /\ got[r][1].kind = "exception"
        /\ calls[r] = Targets(ep[r])

\* C7, as claimed: the outbound calls of a request are sequential, at most
\* two, and three only on a text-extraction endpoint.
C7_AtMostTwoCalls ==
    \A r \in RequestIds :
        /\ Cardinality(inflight[r]) <= 1
        /\ Len(calls[r]) <= IF ep[r] \in TextEndpoints THEN 3 ELSE 2

\* C7, amended: the outbound calls of a request are sequential (at most one
\* is in flight, and a call is in flight only while the handler awaits it),
\* and at most three: exactly the internal proxy endpoints issue one at
\* most (the text-extraction ones included), only /api/test-proxy issues up
\* to three, and the other endpoints issue none.
C7_SequentialChain ==
    \A r \in RequestIds :
        /\ Cardinality(inflight[r]) <= 1
        /\ inflight[r] # {} => pc[r] = "await"
        /\ Len(calls[r]) = stage[r] + Cardinality(inflight[r])
        /\ Len(calls[r]) <=
              IF ep[r] = "/api/test-proxy" THEN 3
              ELSE IF ep[r] \in InternalProxies THEN 1 ELSE 0

\* /api/test-proxy has its third call in flight, the first two done.
C7_Witness ==
    \E r \in RequestIds :
        /\ ep[r] = "/api/test-proxy"
        /\ pc[r] = "await"
        /\ stage[r] = 2
        /\ Len(calls[r]) = 3

C10_NoCaching ==
    /\ [][\A r \in RequestIds :
            (pc[r] # "done" /\ pc'[r] = "done" /\ ReadsFile(ep[r])) =>
                resp'[r] = Immediate(ep[r], load_bulletins_from_file(file),
                                     year[r], utcYear)]_vars
    /\ [](\A r \in RequestIds :
            (pc[r] = "done" /\ ep[r] \in InternalProxies /\ authed[r]) =>
                /\ calls[r] = Targets(ep[r])
                /\ Len(got[r]) = 1
                /\ resp[r] = api_bo_internal(ep[r], got[r][1]))

\* A request read the cache after the file had changed since the load
\* before it, and answered with the new content.
C10_Witness ==
    \E r \in RequestIds :
        /\ pc[r] = "done"
        /\ ep[r] = "/api/database"
        /\ seen[r].changed
        /\ resp[r] = get_database(load_bulletins_from_file(file))
        /\ lastLoad.data = seen[r].data

\* The response request r gets when it is served alone, from its own
\* inputs: its endpoint, credentials and year, the cache content and clock
\* it read, and the outcomes of its outbound calls.
Alone(r) ==
    LET e == ep[r]
    IN  IF e \in InternalEndpoints /\ require_api_key(cred[r]).raised
        THEN require_api_key(cred[r]).response
        ELSE IF Targets(e) = <<>>
        THEN Immediate(e, seen[r].data, year[r], seen[r].now)
        ELSE IF e = "/api/test-proxy"
        THEN test_proxy([i \in 1..Len(got[r]) |-> TestResult(got[r][i])],
                        seen[r].now)
        ELSE api_bo_internal(e, got[r][Len(got[r])])

\* C8: under any interleaving of requests, the response of each request is
\* the one it gets when served alone with the same inputs (credentials,
\* cache content, clock, upstream outcomes): no request changes the
\* response of another.
C8_NoInterference ==
    \A r \in RequestIds : pc[r] = "done" => resp[r] = Alone(r)

\* A /api/test-proxy request completed while another one, whose first call
\* had another outcome, was suspended in its second call.
C8_Witness ==
    \E r, q \in RequestIds :
        /\ r # q
        /\ ep[r] = "/api/test-proxy" /\ pc[r] = "done"
        /\ ep[q] = "/api/test-proxy" /\ pc[q] = "await" /\ stage[q] = 1
        /\ got[q][1] # got[r][1]
        /\ resp[r] = Alone(r)

(***************************************************************************)
(* The BulletinFetcher as steps (spec.md 4.5)                              *)
(***************************************************************************)
\* fetchLatest / fetchAll is called: step 1, the scrape is requested.
FetchStart(language, mode) ==
    /\ fetch.pc = "idle"
    /\ fetch' = [FetchIdle EXCEPT !.pc = "scraping", !.language = language,
                                  !.mode = mode, !.scrapeCalls = 1]
    /\ UNCHANGED <<file, utcYear, reqVars, lastLoad>>

\* The scrape ends; step 2 resolves the identifiers and step 3 issues the
\* one listing request, carrying them.
ScrapeReturn(outcome) ==
    /\ fetch.pc = "scraping"
    /\ fetch' = [fetch EXCEPT
                    !.pc = "listing",
                    !.scrape = outcome,
                    !.live = LiveIdentifiers(outcome, fetch.language),
                    !.ids = ResolveIdentifiers(outcome, fetch.language,
                                               Fallback(fetch.language)),
                    !.listingCalls = @ + 1]
    /\ UNCHANGED <<file, utcYear, reqVars, lastLoad>>

\* The listing call ends; steps 4-5 produce the result.
ListingReturn(outcome) ==
    /\ fetch.pc = "listing"
    /\ fetch' = [fetch EXCEPT !.pc = "done",
                              !.listing = outcome,
                              !.result = FetchResult(fetch.mode, outcome)]
    /\ UNCHANGED <<file, utcYear, reqVars, lastLoad>>

\* The result is handed to the caller; the values of the fetch are dropped.
FetchEnd ==
    /\ fetch.pc = "done"
    /\ fetch' = FetchIdle
    /\ UNCHANGED <<file, utcYear, reqVars, lastLoad>>

FetchStarts ==
    \E language \in {"primary", "secondary"}, mode \in {"latest", "all"} :
        FetchStart(language, mode)
ScrapeReturns == \E o \in ScrapeOutcomes : ScrapeReturn(o)
ListingReturns == \E o \in ListingOutcomes : ListingReturn(o)

NextFetch ==
    \/ FetchStarts
    \/ ScrapeReturns
    \/ ListingReturns
    \/ FetchEnd

SpecFetch == Init /\ [][NextFetch]_vars

\* The scrape of the fetch failed, or its script text lacks an identifier.
ScrapeFailed ==
    /\ fetch.pc \in {"listing", "done"}
    /\ ~Complete(LiveIdentifiers(fetch.scrape, fetch.language))

ListingSucceeded ==
    /\ fetch.pc = "done"
    /\ fetch.listing.kind = "array"
    /\ fetch.mode = "latest" => fetch.listing.records # <<>>

\* C4: when the live identifier scrape fails in any way (network error,
\* timeout, parse failure, an identifier missing), the fetch uses the static
\* fallback identifiers and still issues its one listing request; whenever
\* that listing call succeeds the fetch yields a valid result, the same as
\* after a successful scrape: the failure is not surfaced.
C4_ScrapeFailureFallsBack ==
    ScrapeFailed =>
        /\ fetch.ids = Fallback(fetch.language)
        /\ fetch.scrapeCalls = 1
        /\ fetch.listingCalls = 1
        /\ ListingSucceeded =>
              /\ fetch.result.kind \in {"item", "items"}
              /\ fetch.result = FetchResult(fetch.mode, fetch.listing)

\* A fetch whose scrape hit a network error returned the latest item.
C4_Witness ==
    /\ ScrapeFailed
    /\ fetch.scrape.kind = "network error"
    /\ ListingSucceeded
    /\ fetch.mode = "latest"
    /\ fetch.result.kind = "item"

Scripts ==
    /\ fetch.pc \in {"listing", "done"}
    /\ fetch.scrape.kind = "scripts"

\* C13: extract selects as context identifier the minimum of the numbers
\* matched by ModuleId = <digits> for the primary language and the maximum
\* for the secondary one, Absent when nothing matches; the tab identifier is
\* the first TabId = <digits> match in document order, Absent when there is
\* none, the same for both languages whatever the context identifier is.
C13_ExtractSelects ==
    Scripts =>
        LET text == fetch.scrape.text
            mods == {i \in 1..Len(text) : text[i].name = "ModuleId"}
            tabs == {i \in 1..Len(text) : text[i].name = "TabId"}
            c    == fetch.live.contextId
            t    == fetch.live.tabId
        IN  /\ mods = {} => c = Absent
            /\ mods # {} =>
                  /\ c.present
                  /\ \E i \in mods : text[i].n = c.n
                  /\ fetch.language = "primary" =>
                        \A j \in mods : c.n <= text[j].n
                  /\ fetch.language = "secondary" =>
                        \A j \in mods : c.n >= text[j].n
            /\ tabs = {} => t = Absent
            /\ tabs # {} =>
                  \E i \in tabs : /\ \A j \in tabs : i <= j
                                  /\ t = Id(text[i].n)
            /\ \A l \in {"primary", "secondary"} : extract(text, l).tabId = t

\* From ModuleId = 5, ModuleId = 9, TabId = 42 the secondary language gets
\* context identifier 9 and tab identifier 42.
C13_Witness ==
    /\ Scripts
    /\ fetch.language = "secondary"
    /\ fetch.scrape.text =
            <<Assign("ModuleId", 5), Assign("ModuleId", 9), Assign("TabId", 42)>>
    /\ fetch.live = [contextId |-> Id(9), tabId |-> Id(42)]

(***************************************************************************)
(* Properties of the local cache endpoints                                 *)
(***************************************************************************)
\* A local request that has been answered, and the list stored for its
\* language in the data it loaded.
LocalDone(r) == pc[r] = "done" /\ ep[r] \in LocalEndpoints

Stored(r) == LangList(seen[r].data, LangOf(ep[r]))

RECURSIVE IsSubsequence(_, _)
IsSubsequence(a, b) ==
    IF a = <<>> THEN TRUE
    ELSE IF b = <<>> THEN FALSE
    ELSE IF Head(a) = Head(b) /\ IsSubsequence(Tail(a), Tail(b)) THEN TRUE
    ELSE IsSubsequence(a, Tail(b))

\* C11: the list a local endpoint returns is, without a year parameter, the
\* sequence stored for its language exactly as stored, and with a year
\* parameter an order-preserving subsequence of it: nothing is reordered,
\* duplicated or taken from the other language.
C11_OrderPreserved ==
    \A r \in RequestIds :
        (LocalDone(r) /\ resp[r].status = 200) =>
            /\ resp[r].body.t = "list"
            /\ IF year[r].given
               THEN IsSubsequence(resp[r].body.v, Stored(r).v)
               ELSE resp[r].body = Stored(r)

\* A year filter kept the first and the third of three stored records.
C11_Witness ==
    \E r \in RequestIds :
        /\ LocalDone(r)
        /\ year[r] = YearOf(Str2024)
        /\ Stored(r) = JList(<<BoA, BoB, BoC>>)
        /\ resp[r] = Response(200, JList(<<BoA, BoC>>))

\* C12: a record whose date field is missing, null or unparsable never
\* fails the batch: year filtering completes without raising (no 500), the
\* record is treated as having no date, and the records of the year asked
\* for are still returned.
C12_BadDateNeverFails ==
    \A r \in RequestIds :
        (LocalDone(r) /\ year[r].given /\ Truthy(Stored(r))) =>
            LET expected == InYear(Stored(r).v, year[r], seen[r].now)
            IN  /\ resp[r].status # 500
                /\ IF expected = <<>> THEN resp[r].status = 404
                   ELSE resp[r] = Response(200, JList(expected))

\* The year of a BoDate string: its first four characters.
LiesInYear(b, y) ==
    /\ b.BoDate.t = "str"
    /\ Len(b.BoDate.v) >= 4
    /\ SubSeq(b.BoDate.v, 1, 4) = y

RECURSIVE OfYear(_, _)
OfYear(s, y) ==
    IF s = <<>> THEN <<>>
    ELSE IF LiesInYear(Head(s), y) THEN <<Head(s)>> \o OfYear(Tail(s), y)
    ELSE OfYear(Tail(s), y)

\* C15: with a year parameter a local endpoint returns a record if and only
\* if its BoDate lies in the year asked for (the current UTC year for
\* 'current'); without it, all the records of the language.
C15_YearFilterExact ==
    \A r \in RequestIds :
        (LocalDone(r) /\ Truthy(Stored(r))) =>
            IF year[r].given
            THEN LET y == IF year[r].v = StrCurrent THEN seen[r].now
                          ELSE year[r].v
                     expected == OfYear(Stored(r).v, y)
                 IN  IF expected = <<>> THEN resp[r].status = 404
                     ELSE resp[r] = Response(200, JList(expected))
            ELSE resp[r] = Response(200, Stored(r))

\* C16: when data/bulletins.json is missing or is not valid JSON, the
\* handlers get the empty structure: /api/database answers 200 with
\* {"bulletins": {"FR": [], "AR": []}} and the local endpoints answer 404.
C16_MissingFileIsEmpty ==
    [][\A r \in RequestIds :
        (/\ pc[r] # "done" /\ pc'[r] = "done"
         /\ ReadsFile(ep[r])
         /\ file.kind \in {"missing", "invalid"}) =>
            /\ seen'[r].data = EmptyDb
            /\ IF ep[r] = "/api/database"
               THEN resp'[r] = Response(200, [t |-> "db", v |-> EmptyDb])
               ELSE resp'[r].status = 404]_vars

\* A local endpoint answered 404 on a file that is not valid JSON.
C16_Witness ==
    \E r \in RequestIds :
        /\ LocalDone(r)
        /\ file = FileInvalid
        /\ seen[r].data = EmptyDb
        /\ resp[r].status = 404

(***************************************************************************)
(* Properties of the credentials and of the proxy handlers                 *)
(***************************************************************************)
KeylessEndpoints ==
    {"/api/database", "/api/BO/local/FR", "/api/BO/local/AR", "/health"}

\* C17: /api/database, the local endpoints and /health require no API key:
\* their response is determined by the cache content, the query parameter
\* and the clock alone, so it is the same with no credentials, an invalid
\* token or the valid token (and is never 401).
C17_PublicIgnoresCredentials ==
    \A r \in RequestIds :
        (pc[r] = "done" /\ ep[r] \in KeylessEndpoints) =>
            /\ resp[r] = Immediate(ep[r], seen[r].data, year[r], seen[r].now)
            /\ resp[r].status # 401
            /\ ~authed[r]

\* /api/database answered 200 to a request carrying an invalid token.
C17_Witness ==
    \E r \in RequestIds :
        /\ pc[r] = "done"
        /\ ep[r] = "/api/database"
        /\ cred[r] = Bearer("testapikey")
        /\ resp[r] = get_database(seen[r].data)

\* An authenticated proxy request whose outbound call has been answered.
ProxyDone(r) ==
    /\ pc[r] = "done"
    /\ ep[r] \in InternalProxies
    /\ authed[r]
    /\ Len(got[r]) = 1

\* C18: when the scraper API answers an authenticated proxy request with a
\* status other than 200, the response carries that status, with detail
\* "Failed to fetch data from external API"; 500 is answered only when the
\* outbound call raises.
C18_UpstreamStatusPropagates ==
    \A r \in RequestIds :
        (ProxyDone(r) /\ got[r][1].kind = "response"
                      /\ got[r][1].status # 200) =>
            resp[r] = HTTPExceptionResponse(got[r][1].status,
                          <<"Failed to fetch data from external API">>)

\* C19: authentication precedes all outbound activity: an internal request
\* answered 401 has issued no outbound call, and an internal request issues
\* an outbound call only after require_api_key found its token equal to
\* API_KEY.
C19_AuthBeforeCalls ==
    /\ [](\A r \in RequestIds :
            ep[r] \in InternalEndpoints =>
                /\ (pc[r] = "done" /\ resp[r].status = 401) =>
                        (calls[r] = <<>> /\ inflight[r] = {} /\ got[r] = <<>>)
                /\ calls[r] # <<>> => (authed[r] /\ verify_api_key(cred[r])))
    /\ [][\A r \in RequestIds :
            (ep[r] \in InternalEndpoints /\ calls'[r] # calls[r]
                /\ calls'[r] # <<>>) =>
                    (authed[r] /\ verify_api_key(cred[r]))]_vars

\* A text-extraction request awaits its outbound call, authenticated.
C19_Witness ==
    \E r \in RequestIds :
        /\ ep[r] = "/api/BO/Text/AR/internal"
        /\ pc[r] = "await"
        /\ authed[r]
        /\ calls[r] = Targets(ep[r])

\* C20: the six internal proxy endpoints are the same operation up to the
\* upstream URL: for the same upstream outcome each answers what
\* /api/BO/FR/internal answers, status and body.
C20_ProxiesAlike ==
    \A r \in RequestIds :
        ProxyDone(r) =>
            resp[r] = api_bo_internal("/api/BO/FR/internal", got[r][1])

(***************************************************************************)
(* Properties of the bulletin items returned                               *)
(***************************************************************************)
Digits == {"0", "1", "2", "3", "4", "5", "6", "7", "8", "9"}

StrUnknown == <<"u", "n", "k", "n", "o", "w", "n">>

\* YYYY-MM-DDTHH:MM:SSZ, with an optional fraction of a second before the Z.
IsIsoUtc(s) ==
    /\ Len(s) >= 20
    /\ s[Len(s)] = "Z"
    /\ \A i \in {1, 2, 3, 4, 6, 7, 9, 10, 12, 13, 15, 16, 18, 19} :
            s[i] \in Digits
    /\ s[5] = "-" /\ s[8] = "-" /\ s[11] = "T"
    /\ s[14] = ":" /\ s[17] = ":"
    /\ Len(s) > 20 =>
            /\ s[20] = "."
            /\ \A i \in 21..(Len(s) - 1) : s[i] \in Digits

NormalizedDate(d) ==
    /\ d.t = "str"
    /\ d.v = StrUnknown \/ IsIsoUtc(d.v)

\* The bulletin items in the body of a response of the cache endpoints.
ItemsReturned(r) ==
    IF resp[r].body.t = "list" THEN Range(resp[r].body.v)
    ELSE IF resp[r].body.t = "db"
    THEN UNION {Range(resp[r].body.v.langs[l].v) :
                    l \in DOMAIN resp[r].body.v.langs}
    ELSE {}

\* C14: every bulletin item returned has a date that is an ISO-8601 UTC
\* timestamp ending in Z or, when the date token is missing or unparsable,
\* the string "unknown"; a raw token or another malformed value is never
\* returned as the date.
C14_DatesNormalized ==
    \A r \in RequestIds :
        (pc[r] = "done" /\ resp[r].status = 200
            /\ ep[r] \in LocalEndpoints \cup {"/api/database"}) =>
                \A b \in ItemsReturned(r) : NormalizedDate(b.BoDate)

(***************************************************************************)
(* Properties of the health probe and of termination                       *)
(***************************************************************************)
\* C22: GET /health answers 200 with status "healthy" whatever the cache
\* file is (present, missing, corrupt) and whatever credentials the request
\* carries; its handler reads no file and makes no outbound call.
C22_HealthAlwaysHealthy ==
    \A r \in RequestIds :
        (ep[r] = "/health" /\ pc[r] \notin {"idle", "start"}) =>
            /\ pc[r] = "done"
            /\ resp[r].status = 200
            /\ resp[r].body.t = "health"
            /\ resp[r].body.v[1] = "healthy"
            /\ ~seen[r].read
            /\ calls[r] = <<>> /\ inflight[r] = {} /\ got[r] = <<>>

\* /health answered 200 to a request with an invalid token while the cache
\* file is not valid JSON.
C22_Witness ==
    \E r \in RequestIds :
        /\ ep[r] = "/health"
        /\ pc[r] = "done"
        /\ file = FileInvalid
        /\ cred[r] = Bearer("testapikey")
        /\ resp[r] = health_check(seen[r].now)

FinalStatuses == {200, 401, 404, 500}

\* The response of a request is set once, when its handler ends, and stays
\* as it is until it has been sent.
SetOnce(r) ==
    resp'[r] # resp[r] =>
        \/ /\ resp[r] = NoResponse
           /\ pc[r] \in {"start", "authed", "await"}
           /\ pc'[r] = "done"
        \/ /\ pc[r] = "done"
           /\ pc'[r] = "idle"
           /\ resp'[r] = NoResponse

\* C21: every inbound request terminates with exactly one response: given
\* that each outbound call returns, raises or times out, the handler reaches
\* one final outcome (200 with a body, 401, 404 or 500); the request never
\* stays pending and never has two outcomes.
C21_OneResponse ==
    /\ \A r \in RequestIds :
          (pc[r] = "start") ~>
              (/\ pc[r] = "done"
               /\ resp[r].status \in FinalStatuses
               /\ resp[r].status = 200 => resp[r].body.t # "detail")
    /\ [][\A r \in RequestIds : SetOnce(r)]_vars
    /\ [](\A r \in RequestIds :
            /\ pc[r] = "done" => resp[r].status \in FinalStatuses
            /\ pc[r] # "done" => resp[r] = NoResponse)

\* A proxy request whose outbound call timed out has been answered 500, and
\* /api/test-proxy has answered after its three calls.
C21_Witness ==
    \E r \in RequestIds :
        /\ pc[r] = "done"
        /\ \/ /\ ep[r] = "/api/BO/ALL/FR/internal"
              /\ got[r] = <<Failed("ReadTimeout")>>
              /\ resp[r].status = 500
           \/ /\ ep[r] = "/api/test-proxy"
              /\ Len(got[r]) = 3
              /\ resp[r].status = 200

====
